---- MODULE Spec2Model ----
(***************************************************************************)
(* A model of xdf-tagger (src/main.py): the VarLenInt codec, the chunk     *)
(* frame writer, the resync scanner, the metadata locator, the splice in   *)
(* process_file and the in-place promotion of the main loop.               *)
(*                                                                         *)
(* Files are sequences of bytes (0..255).  File offsets are 0-based as in  *)
(* Python: the byte at offset p of file f is f[p + 1].                     *)
(***************************************************************************)
EXTENDS Integers, Sequences, FiniteSets, TLC

VARIABLES
    desc,         \* how the input container was built (never changes)
    args,         \* command line: output mode and --overwrite
    fs,           \* the file system: path -> bytes, or Absent
    pc,           \* position in __main__ / process_file / get_metadata_content
    err,          \* the exception in flight ("none" when there is none)
    outf,         \* the output handle: "None", "open" or "closed"
    inpos,        \* read cursor of the input handle (inf.tell())
    loc,          \* local variables of get_metadata_content
    meta,         \* the tuple get_metadata_content returned
    new_content,  \* the text process_metadata_content returned
    codec         \* state of the VarLenInt round-trip harness

vars == <<desc, args, fs, pc, err, outf, inpos, loc, meta, new_content, codec>>

(***************************************************************************)
(* Bounds of the model.                                                    *)
(***************************************************************************)
\* most chunks (or stray bytes) between the magic marker and the tail
MaxChunks == 3
\* zero bytes that may follow the chunks (more than the 1024 of the
\* end-of-file heuristic, so that a resync can happen)
TailLen == 1100
\* random.randint draws come from IdLo .. IdLo + DrawSpan
DrawSpan == 1

(***************************************************************************)
(* Python values.                                                          *)
(***************************************************************************)
\* None, for the integer-valued locals (offsets, lengths, stream ids)
NoneInt == -1
\* None, for the text-valued locals (no text holds a negative code point)
NoneText == <<-1>>
\* a path at which no file exists
Absent == <<-2>>

Min(a, b) == IF a < b THEN a ELSE b

\* f.read(n) for n >= 0 at offset pos: at most n bytes, fewer at end of file
Read(f, pos, n) ==
    SubSeq(f, pos + 1, IF n >= Len(f) - pos THEN Len(f) ELSE pos + n)

\* f.read(n) for any n: n = -1 reads to the end of the file; n < -1 raises
\* ValueError, reported here as <<-1>> (no byte is negative)
ReadN(f, pos, n) ==
    IF n >= 0 THEN Read(f, pos, n)
    ELSE IF n = -1 THEN SubSeq(f, pos + 1, Len(f))
    ELSE <<-1>>

Pow256(k) == CASE k = 0 -> 1 [] k = 1 -> 256 [] k = 2 -> 65536 [] k = 3 -> 16777216

\* struct.pack('<H' / '<L', n) for the small n of the model: w bytes, low first
LE(n, w) == [i \in 1..w |-> IF i <= 4 THEN (n \div Pow256(i - 1)) % 256 ELSE 0]

\* struct.unpack('<H' / '<I', b)[0]
UnLE(b) ==
    LET RECURSIVE V(_)
        V(i) == IF i > Len(b) THEN 0 ELSE b[i] * Pow256(i - 1) + V(i + 1)
    IN V(1)

(***************************************************************************)
(* VarLenInt codec.  A length is an unsigned 64-bit integer, kept as its   *)
(* 8 base-256 digits, low digit first, so that 2^32 and 2^63 are exact.    *)
(***************************************************************************)
U64(n) == LE(n, 8)

\* i <= 0xFF
LeFF(d) == \A i \in 2..8 : d[i] = 0

\* i <= 0xFFFFFFFFF (nine F digits: 2^36 - 1), as written at line 74
LeFFFFFFFFF(d) == d[5] <= 15 /\ \A i \in 6..8 : d[i] = 0

\* the value fits struct's 'L' format (0 .. 2^32 - 1)
FitsL(d) == \A i \in 5..8 : d[i] = 0

\* write_varlen_int(i, fp): the bytes written, or <<-1>> when struct.pack
\* raises struct.error
write_varlen_int(d) ==
    IF LeFF(d) THEN <<1, d[1]>>
    ELSE IF LeFFFFFFFFF(d)
         THEN IF FitsL(d) THEN <<4>> \o SubSeq(d, 1, 4) ELSE <<-1>>
         ELSE <<8>> \o d

\* read_varlen_int(fp) at offset pos of f: ok (FALSE: an exception was
\* raised), the value read, and the cursor afterwards
read_varlen_int(f, pos) ==
    LET sel == Read(f, pos, 1)
    IN  IF Len(sel) < 1
        THEN [ok |-> FALSE, val |-> U64(0), pos |-> pos]
        ELSE IF sel[1] \in {1, 4, 8}
             THEN LET body == Read(f, pos + 1, sel[1])
                  IN  IF Len(body) < sel[1]
                      THEN [ok |-> FALSE, val |-> U64(0),
                            pos |-> pos + 1 + Len(body)]
                      ELSE [ok |-> TRUE,
                            val |-> [i \in 1..8 |->
                                       IF i <= sel[1] THEN body[i] ELSE 0],
                            pos |-> pos + 1 + sel[1]]
             ELSE [ok |-> FALSE, val |-> U64(0), pos |-> pos + 1]

\* a length as a number for fh.read: exact below 2^30, and any larger length
\* reads to the end of the (much shorter) files of the model
BigLen == 1073741824
LenVal(d) ==
    IF (\A i \in 5..8 : d[i] = 0) /\ d[4] < 64 THEN UnLE(SubSeq(d, 1, 4))
    ELSE BigLen

(***************************************************************************)
(* Text.  A text is a sequence of code points.                             *)
(***************************************************************************)
IsCont(b, i) == i <= Len(b) /\ b[i] \in 128..191

\* the second byte a three-byte lead c admits (no overlong forms, no
\* surrogates)
Second3(c, b, i) ==
    /\ i <= Len(b)
    /\ b[i] \in (IF c = 224 THEN 160..191 ELSE IF c = 237 THEN 128..159
                 ELSE 128..191)

\* the second byte a four-byte lead c admits (up to U+10FFFF)
Second4(c, b, i) ==
    /\ i <= Len(b)
    /\ b[i] \in (IF c = 240 THEN 144..191 ELSE IF c = 244 THEN 128..143
                 ELSE 128..191)

\* bytes.decode('utf-8', 'replace'): every ill-formed maximal subpart becomes
\* one U+FFFD (65533)
Utf8Decode(b) ==
    LET RECURSIVE D(_)
        D(i) ==
          IF i > Len(b) THEN <<>>
          ELSE LET c == b[i] IN
            IF c < 128 THEN <<c>> \o D(i + 1)
            ELSE IF c \in 194..223
            THEN IF IsCont(b, i + 1)
                 THEN <<(c - 192) * 64 + (b[i + 1] - 128)>> \o D(i + 2)
                 ELSE <<65533>> \o D(i + 1)
            ELSE IF c \in 224..239
            THEN IF ~Second3(c, b, i + 1) THEN <<65533>> \o D(i + 1)
                 ELSE IF ~IsCont(b, i + 2) THEN <<65533>> \o D(i + 2)
                 ELSE <<(c - 224) * 4096 + (b[i + 1] - 128) * 64
                         + (b[i + 2] - 128)>> \o D(i + 3)
            ELSE IF c \in 240..244
            THEN IF ~Second4(c, b, i + 1) THEN <<65533>> \o D(i + 1)
                 ELSE IF ~IsCont(b, i + 2) THEN <<65533>> \o D(i + 2)
                 ELSE IF ~IsCont(b, i + 3) THEN <<65533>> \o D(i + 3)
                 ELSE <<(c - 240) * 262144 + (b[i + 1] - 128) * 4096
                         + (b[i + 2] - 128) * 64 + (b[i + 3] - 128)>>
                      \o D(i + 4)
            ELSE <<65533>> \o D(i + 1)
    IN D(1)

\* str.encode('utf-8')
Utf8Encode(t) ==
    LET One(c) ==
          IF c < 128 THEN <<c>>
          ELSE IF c < 2048 THEN <<192 + (c \div 64), 128 + (c % 64)>>
          ELSE IF c < 65536
          THEN <<224 + (c \div 4096), 128 + ((c \div 64) % 64),
                 128 + (c % 64)>>
          ELSE <<240 + (c \div 262144), 128 + ((c \div 4096) % 64),
                 128 + ((c \div 64) % 64), 128 + (c % 64)>>
        RECURSIVE E(_)
        E(i) == IF i > Len(t) THEN <<>> ELSE One(t[i]) \o E(i + 1)
    IN E(1)

(***************************************************************************)
(* The header document.  The XML of a stream header is abstracted to its   *)
(* first character: 'M' (77) stands for a well-formed document whose name  *)
(* and type are both "Metadata", 'O' (79) for a well-formed document of    *)
(* another stream; any other text does not parse.                          *)
(***************************************************************************)
\* metadata_default: the blank document, name and type "Metadata"
metadata_default == <<77, 68>>

\* xml2dict(et.fromstring(text)) and the test of line 234:
\* "metadata", "other", or "error" when parsing or the lookup raises
ParseDoc(text) ==
    IF Len(text) >= 1 /\ text[1] = 77 THEN "metadata"
    ELSE IF Len(text) >= 1 /\ text[1] = 79 THEN "other"
    ELSE "error"

(***************************************************************************)
(* Chunk tags and the chunk frame writer.                                  *)
(***************************************************************************)
STREAM_HEADER_TAG == 2
SAMPLES_TAG == 3
STREAM_FOOTER_TAG == 6

\* a write_chunk whose length field counts the content without the tag
write_chunk_ContentLength(tag, content) ==
    LET len == write_varlen_int(U64(Len(content)))
    IN  IF len = <<-1>> THEN <<-1>> ELSE len \o LE(tag, 2) \o content

\* write_chunk(fp, tag, content): the bytes written, or <<-1>> when
\* write_varlen_int raises
write_chunk(tag, content) ==
    LET len == write_varlen_int(U64(Len(content) + 2))
    IN  IF len = <<-1>> THEN <<-1>> ELSE len \o LE(tag, 2) \o content

(***************************************************************************)
(* Resync scanner.                                                         *)
(***************************************************************************)
blocklen == 1048576

signature == <<67, 165, 70, 220, 203, 245, 65, 15,
               179, 14, 213, 70, 115, 131, 203, 228>>

\* block.find(sig): the 0-based index of the first occurrence, or -1
Find(block, sig) ==
    LET hits == {i \in 1..(Len(block) - Len(sig) + 1) :
                   /\ block[i] = sig[1]
                   /\ SubSeq(block, i, i + Len(sig) - 1) = sig}
    IN  IF hits = {} THEN -1
        ELSE (CHOOSE i \in hits : \A j \in hits : i <= j) - 1

\* where scan_forward leaves the cursor after a match at file offset m
AfterMatch(m) == m + 15

\* scan_forward(f) from offset pos: the cursor afterwards, and the file
\* offset of the match (NoneInt when the end of the file was reached)
RECURSIVE scan_forward(_, _)
scan_forward(f, pos) ==
    LET curpos   == pos
        block    == Read(f, curpos, blocklen)
        matchpos == Find(block, signature)
    IN  IF matchpos # -1
        THEN [pos |-> AfterMatch(curpos + matchpos), match |-> curpos + matchpos]
        ELSE IF Len(block) < blocklen
             THEN [pos |-> curpos + Len(block), match |-> NoneInt]
             ELSE scan_forward(f, curpos + Len(block))

(***************************************************************************)
(* The input containers of the model: the magic marker (or a wrong one),   *)
(* up to MaxChunks pieces, and possibly a tail of zero bytes.              *)
(***************************************************************************)
Magic == <<88, 68, 70, 58>>        \* b'XDF:'
BadMagic == <<88, 68, 71, 58>>     \* b'XDG:'

PieceNames ==
    {"meta1", "meta2", "other", "samples", "footer", "boundary", "corrupt"}

\* the pieces of the containers the locator alone is run on: PieceNames, and
\* opaque: tag 5 with a 4-byte length field; len0, len1: tag 5 with a length
\* below 2; shorthdr: a StreamHeader whose length is below 6; trunc: a
\* StreamHeader whose length runs 12 bytes past its last byte
MalformedNames == {"len0", "len1", "shorthdr", "trunc"}
LocPieceNames == PieceNames \cup {"opaque"} \cup MalformedNames

\* the bytes of a piece.  meta1: StreamHeader, id 1, document "Ma";
\* meta2: StreamHeader, id 2, document "M" and the byte 0xFF (not UTF-8);
\* other: StreamHeader, id 10000, document "Oa"; samples: tag 3;
\* footer: tag 6; boundary: tag 4 (a tag the tool does not know) holding the
\* signature; corrupt: a length field whose width selector is 0
Piece(n) ==
    CASE n = "meta1"    -> <<1, 8, 2, 0, 1, 0, 0, 0, 77, 97>>
      [] n = "meta2"    -> <<1, 8, 2, 0, 2, 0, 0, 0, 77, 255>>
      [] n = "other"    -> <<1, 8, 2, 0, 16, 39, 0, 0, 79, 97>>
      [] n = "samples"  -> <<1, 3, 3, 0, 7>>
      [] n = "footer"   -> <<1, 3, 6, 0, 8>>
      [] n = "boundary" -> <<1, 18, 4, 0>> \o signature
      [] n = "corrupt"  -> <<0>>
      [] n = "opaque"   -> <<4, 3, 0, 0, 0, 5, 0, 9>>
      [] n = "len0"     -> <<1, 0, 5, 0>>
      [] n = "len1"     -> <<1, 1, 5, 0>>
      [] n = "shorthdr" -> <<1, 4, 2, 0, 1, 0>>
      [] n = "trunc"    -> <<1, 20, 2, 0, 3, 0, 0, 0, 77, 97>>

IsHeaderPiece(n) == n \in {"meta1", "meta2", "other"}
IsMetaPiece(n) == n \in {"meta1", "meta2"}
IsDataPiece(n) == n \in {"samples", "footer"}

\* the stream id and the document text a header piece carries
PieceId(n) == UnLE(SubSeq(Piece(n), 5, 8))
PieceText(n) == Utf8Decode(SubSeq(Piece(n), 9, Len(Piece(n))))

SeqsUpTo(S, n) == UNION {[1..k -> S] : k \in 0..n}

Descs ==
    {[magic |-> TRUE, chunks |-> c, tail |-> t] :
        c \in SeqsUpTo(PieceNames, MaxChunks), t \in BOOLEAN}
    \cup
    {[magic |-> FALSE, chunks |-> c, tail |-> FALSE] :
        c \in SeqsUpTo({"meta1", "samples"}, 1)}

\* the containers the locator alone is run on
LocDescs ==
    {[magic |-> TRUE, chunks |-> c, tail |-> t] :
        c \in SeqsUpTo(LocPieceNames, MaxChunks), t \in BOOLEAN}
    \cup
    {[magic |-> FALSE, chunks |-> c, tail |-> FALSE] :
        c \in SeqsUpTo({"meta1", "samples"}, 1)}

Zeros(n) == [i \in 1..n |-> 0]

\* the bytes of the first k pieces
RECURSIVE ChunkBytes(_, _)
ChunkBytes(c, k) ==
    IF k = 0 THEN <<>> ELSE ChunkBytes(c, k - 1) \o Piece(c[k])

FileBytes(d) ==
    (IF d.magic THEN Magic ELSE BadMagic)
    \o ChunkBytes(d.chunks, Len(d.chunks))
    \o (IF d.tail THEN Zeros(TailLen) ELSE <<>>)

\* the file offset of the first byte of piece k
Offset(d, k) == 4 + Len(ChunkBytes(d.chunks, k - 1))

(***************************************************************************)
(* get_metadata_content: the traversal.                                    *)
(***************************************************************************)
\* the end-of-file heuristic of line 208
NearEof == 1024

\* the locals at lines 186-197
LocInit(filesize, oldpos) ==
    [filesize            |-> filesize,
     oldpos              |-> oldpos,
     begin_pos           |-> NoneInt,
     streamheaders_begin |-> NoneInt,
     metadata_begin      |-> NoneInt,
     metadata_len        |-> NoneInt,
     metadata_content    |-> NoneText,
     metadata_id         |-> NoneInt,
     other_ids           |-> <<>>,
     has_more_than_one   |-> FALSE,
     warned              |-> FALSE,
     matchpos            |-> NoneInt,
     k                   |-> NoneInt]

\* the outcome of one pass through the loop body
Step(l, pos, next, e) == [loc |-> l, pos |-> pos, next |-> next, err |-> e]

\* a RecordMetadata in which every metadata header overwrites the record
RecordMetadata_LastWins(l, begin_pos, endpos, text, stream_id) ==
    [l EXCEPT !.metadata_begin    = begin_pos,
              !.metadata_len      = endpos - begin_pos,
              !.metadata_content  = text,
              !.metadata_id       = stream_id,
              !.has_more_than_one = l.metadata_begin # NoneInt,
              !.other_ids         = IF l.metadata_begin # NoneInt
                                    THEN Append(@, l.metadata_id) ELSE @]

\* lines 234-246: a header whose name and type are "Metadata"
RecordMetadata(l, begin_pos, endpos, text, stream_id) ==
    IF l.metadata_begin = NoneInt
    THEN [l EXCEPT !.metadata_begin   = begin_pos,
                   !.metadata_len     = endpos - begin_pos,
                   !.metadata_content = text,
                   !.metadata_id      = stream_id]
    ELSE [l EXCEPT !.has_more_than_one = TRUE,
                   !.other_ids         = Append(@, stream_id)]

\* lines 223-248: a [StreamHeader] chunk whose tag ended at offset p
HeaderChunk(f, l, p, chunklen) ==
    LET l1  == IF l.streamheaders_begin = NoneInt
               THEN [l EXCEPT !.streamheaders_begin = l.begin_pos]
               ELSE l
        idb == Read(f, p, 4)
    IN  IF Len(idb) < 4 THEN Step(l1, p + Len(idb), "raise", "struct.error")
        ELSE
        LET xml == ReadN(f, p + 4, chunklen - 6)
        IN  IF xml = <<-1>> THEN Step(l1, p + 4, "raise", "ValueError")
            ELSE
            LET text   == Utf8Decode(xml)
                kind   == ParseDoc(text)
                endpos == p + 4 + Len(xml)
            IN  IF kind = "error" THEN Step(l1, endpos, "raise", "ParseError")
                ELSE IF kind = "metadata"
                THEN Step(RecordMetadata(l1, l.begin_pos, endpos, text,
                                         UnLE(idb)),
                          endpos, "loop", "none")
                ELSE Step([l1 EXCEPT !.other_ids = Append(@, UnLE(idb))],
                          endpos, "loop", "none")

\* lines 254-259: no metadata chunk by the first [Samples]/[StreamFooter]
Synthesize(l) ==
    [l EXCEPT !.metadata_content = metadata_default,
              !.metadata_begin   = l.streamheaders_begin,
              !.metadata_len     = 0]

\* lines 249-270, up to the allocation loop
DataChunk(l, p) ==
    IF l.metadata_content = NoneText
    THEN Step(Synthesize(l), p, "alloc", "none")
    ELSE Step(l, p, "loc_end", "none")

\* an OtherChunk that skips chunklen bytes after the tag
OtherChunk_WholeLength(f, l, p, chunklen) ==
    LET skipped == ReadN(f, p, chunklen)
    IN  IF skipped = <<-1>> THEN Step(l, p, "raise", "ValueError")
        ELSE Step(l, p + Len(skipped), "loop", "none")

\* lines 271-273: any other chunk
OtherChunk(f, l, p, chunklen) ==
    LET skipped == ReadN(f, p, chunklen - 2)
    IN  IF skipped = <<-1>> THEN Step(l, p, "raise", "ValueError")
        ELSE Step(l, p + Len(skipped), "loop", "none")

\* a BadLength whose resynchronization resumes where the iteration began
BadLength_Rewind(f, l, p) ==
    IF p < l.filesize - NearEof
    THEN Step(l, l.begin_pos, "loop", "none")
    ELSE Step(l, p, "loc_end", "none")

\* lines 207-215: read_varlen_int raised, the cursor is at p
BadLength(f, l, p) ==
    IF p < l.filesize - NearEof
    THEN LET s == scan_forward(f, p)
         IN  Step([l EXCEPT !.matchpos = s.match], s.pos, "loop", "none")
    ELSE Step(l, p, "loc_end", "none")

\* line 204: where the cursor is after a read of a length at offset pos
ScanFrom(f, pos) == read_varlen_int(f, pos).pos

\* lines 201-273: one pass through the loop body with the cursor at pos
LoopBody(f, l0, pos) ==
    LET l == [l0 EXCEPT !.begin_pos = pos, !.matchpos = NoneInt]
        r == read_varlen_int(f, pos)
    IN  IF ~r.ok THEN BadLength(f, l, r.pos)
        ELSE
        LET chunklen == LenVal(r.val)
            tagb     == Read(f, r.pos, 2)
            p        == r.pos + 2
        IN  IF Len(tagb) < 2
            THEN Step(l, r.pos + Len(tagb), "raise", "struct.error")
            ELSE IF UnLE(tagb) = STREAM_HEADER_TAG
                 THEN HeaderChunk(f, l, p, chunklen)
            ELSE IF UnLE(tagb) \in {SAMPLES_TAG, STREAM_FOOTER_TAG}
                 THEN DataChunk(l, p)
            ELSE OtherChunk(f, l, p, chunklen)

\* lines 200-273: the loop, from the cursor at pos to the pass that ends it
RECURSIVE Traverse(_, _, _)
Traverse(f, l, pos) ==
    LET s == LoopBody(f, l, pos)
    IN  IF s.next = "loop" THEN Traverse(f, s.loc, s.pos) ELSE s

\* get_metadata_content on a file holding the bytes f: what it returns.
\* ok: it returned (it did not raise); synthesized: no metadata chunk was
\* found before the first data chunk, and the id is a random draw
get_metadata_content(f) ==
    IF Read(f, 0, 4) # Magic
    THEN [ok |-> FALSE, synthesized |-> FALSE, content |-> NoneText,
          begin |-> NoneInt, len |-> NoneInt, id |-> NoneInt]
    ELSE LET s == Traverse(f, LocInit(Len(f), 0), 4)
         IN  [ok          |-> s.next # "raise",
              synthesized |-> s.next = "alloc",
              content     |-> s.loc.metadata_content,
              begin       |-> s.loc.metadata_begin,
              len         |-> s.loc.metadata_len,
              id          |-> s.loc.metadata_id]

(***************************************************************************)
(* The allocation of a fresh stream id, and the splice helpers.            *)
(***************************************************************************)
IdLo == 10000
IdHi == 99999

\* the values random.randint(10000, 99999) is drawn from in the model
RandIds == IdLo..Min(IdHi, IdLo + DrawSpan)

Range(q) == {q[i] : i \in 1..Len(q)}

blocksize == 65536

\* copy_range(inf, outf, length): the bytes read from offset pos of f
RECURSIVE copy_range(_, _, _)
copy_range(f, pos, length) ==
    IF length >= blocksize
    THEN LET b == Read(f, pos, blocksize)
         IN  b \o copy_range(f, pos + Len(b), length - blocksize)
    ELSE IF length # 0 THEN Read(f, pos, length) ELSE <<>>

\* a copyfile that stops one block short of the end
copyfile_short(f) == SubSeq(f, 1, Len(f) - 1)

\* shutil.copyfile(inpath, outpath): the bytes the copy holds
copyfile(f) == f

\* lines 406-407: the frame of the new [StreamHeader] chunk
NewChunk(id, text) ==
    write_chunk(STREAM_HEADER_TAG, LE(id, 4) \o Utf8Encode(text))

\* what process_metadata_content may return for a text: the text itself, or
\* an edited text whose name and type are unchanged
Edited(text) == Append(text, 122)

(***************************************************************************)
(* The command line of a run.                                              *)
(***************************************************************************)
\* mode "show": no --set/--clear, outpath is None; "suffix": outpath is the
\* suffixed name; "inplace": outpath is a temp name to be renamed.
\* out0 is what the output path holds before the run.
Runs ==
    {[mode |-> "show",    overwrite |-> FALSE, out0 |-> Absent],
     [mode |-> "suffix",  overwrite |-> FALSE, out0 |-> Absent],
     [mode |-> "suffix",  overwrite |-> FALSE, out0 |-> <<9>>],
     [mode |-> "suffix",  overwrite |-> TRUE,  out0 |-> <<9>>],
     [mode |-> "inplace", overwrite |-> FALSE, out0 |-> Absent]}

\* lines 487-490 and gen_outpath
OutpathGiven == args.mode # "show"
IsTemppath == args.mode = "inplace"

NoMeta == [content |-> NoneText, begin |-> NoneInt, len |-> NoneInt,
           id |-> NoneInt]

CodecIdle == [pc |-> "idle", v |-> U64(0), enc |-> <<>>, dec |-> U64(0)]

(***************************************************************************)
(* One run of the main loop's body on one input file.                      *)
(***************************************************************************)
Init ==
    /\ desc \in Descs
    /\ args \in Runs
    /\ fs = [in |-> FileBytes(desc), out |-> args.out0]
    /\ pc = "start"
    /\ err = "none"
    /\ outf = "None"
    /\ inpos = 0
    /\ loc = LocInit(NoneInt, NoneInt)
    /\ meta = NoMeta
    /\ new_content = NoneText
    /\ codec = CodecIdle

\* an exception leaves the with-block for the finally clause
Raise(e) == pc' = "finally" /\ err' = e

\* an OpenFiles that opens the output without looking for an existing file
OpenFiles_NoExistsCheck ==
    /\ pc = "start"
    /\ inpos' = 0
    /\ IF OutpathGiven
       THEN /\ fs' = [fs EXCEPT !.out = <<>>]
            /\ outf' = "open"
       ELSE UNCHANGED <<fs, outf>>
    /\ pc' = "locate"
    /\ UNCHANGED <<desc, args, err, loc, meta, new_content, codec>>

\* lines 383-388
OpenFiles ==
    /\ pc = "start"
    /\ inpos' = 0
    /\ IF OutpathGiven
       THEN IF ~args.overwrite /\ fs.out # Absent
            THEN Raise("FileExistsError") /\ UNCHANGED <<fs, outf>>
            ELSE /\ fs' = [fs EXCEPT !.out = <<>>]
                 /\ outf' = "open"
                 /\ pc' = "locate"
                 /\ err' = err
       ELSE pc' = "locate" /\ UNCHANGED <<fs, outf, err>>
    /\ UNCHANGED <<desc, args, loc, meta, new_content, codec>>

\* lines 174-197
LocatorBegin ==
    /\ pc = "locate"
    /\ LET magic == Read(fs.in, 0, 4)
       IN  IF magic # Magic
           THEN Raise("Exception") /\ inpos' = Len(magic) /\ loc' = loc
           ELSE /\ loc' = LocInit(Len(fs.in), inpos)
                /\ inpos' = 4
                /\ pc' = "loop"
                /\ err' = err
    /\ UNCHANGED <<desc, args, fs, outf, meta, new_content, codec>>

\* lines 200-273: one iteration
LocatorStep ==
    /\ pc = "loop"
    /\ LET s == LoopBody(fs.in, loc, inpos)
       IN  /\ loc' = s.loc
           /\ inpos' = s.pos
           /\ IF s.next = "raise" THEN Raise(s.err)
              ELSE pc' = s.next /\ err' = err
    /\ UNCHANGED <<desc, args, fs, outf, meta, new_content, codec>>

\* lines 261-269: one draw of the allocation loop
AllocateId ==
    /\ pc = "alloc"
    /\ \E k \in RandIds :
          IF k \notin Range(loc.other_ids)
          THEN loc' = [loc EXCEPT !.k = k, !.metadata_id = k]
               /\ pc' = "loc_end"
          ELSE loc' = [loc EXCEPT !.k = k] /\ pc' = "alloc"
    /\ UNCHANGED <<desc, args, fs, err, outf, inpos, meta, new_content, codec>>

\* a LocatorReturn without the fh.seek(oldpos) of line 280
LocatorReturn_NoSeek ==
    /\ pc = "loc_end"
    /\ inpos' = inpos
    /\ meta' = [content |-> loc.metadata_content,
                begin   |-> loc.metadata_begin,
                len     |-> loc.metadata_len,
                id      |-> loc.metadata_id]
    /\ loc' = [loc EXCEPT !.warned = loc.has_more_than_one]
    /\ pc' = "transform"
    /\ UNCHANGED <<desc, args, fs, err, outf, new_content, codec>>

\* lines 275-282
LocatorReturn ==
    /\ pc = "loc_end"
    /\ inpos' = loc.oldpos
    /\ meta' = [content |-> loc.metadata_content,
                begin   |-> loc.metadata_begin,
                len     |-> loc.metadata_len,
                id      |-> loc.metadata_id]
    /\ loc' = [loc EXCEPT !.warned = loc.has_more_than_one]
    /\ pc' = "transform"
    /\ UNCHANGED <<desc, args, fs, err, outf, new_content, codec>>

\* line 397: the splice runs when the new content differs from the located
SpliceNeeded(content, new) == new # content

\* lines 394-397: the transform, and the comparison that picks the path
Transform ==
    /\ pc = "transform"
    /\ IF meta.content = NoneText
       THEN Raise("TypeError") /\ new_content' = new_content
       ELSE \E outcome \in {"same", "edited", "raise"} :
              IF outcome = "raise"
              THEN Raise("ValueError") /\ new_content' = new_content
              ELSE /\ new_content' = IF outcome = "same" THEN meta.content
                                     ELSE Edited(meta.content)
                   /\ pc' = IF SpliceNeeded(meta.content, new_content')
                            THEN "splice_prefix" ELSE "noop"
                   /\ err' = err
    /\ UNCHANGED <<desc, args, fs, outf, inpos, loc, meta, codec>>

\* line 401
CopyPrefix ==
    /\ pc = "splice_prefix"
    /\ IF meta.begin = NoneInt
       THEN Raise("TypeError") /\ UNCHANGED <<fs, inpos>>
       ELSE LET data == copy_range(fs.in, inpos, meta.begin)
            IN  /\ inpos' = inpos + Len(data)
                /\ IF data # <<>> /\ outf = "None"
                   THEN Raise("AttributeError") /\ fs' = fs
                   ELSE /\ fs' = IF data = <<>> THEN fs
                                 ELSE [fs EXCEPT !.out = @ \o data]
                        /\ pc' = "splice_chunk"
                        /\ err' = err
    /\ UNCHANGED <<desc, args, outf, loc, meta, new_content, codec>>

\* lines 406-407
WriteNewChunk ==
    /\ pc = "splice_chunk"
    /\ IF meta.id = NoneInt THEN Raise("struct.error") /\ fs' = fs
       ELSE IF outf = "None" THEN Raise("AttributeError") /\ fs' = fs
       ELSE LET frame == NewChunk(meta.id, new_content)
            IN  IF frame = <<-1>> THEN Raise("struct.error") /\ fs' = fs
                ELSE /\ fs' = [fs EXCEPT !.out = @ \o frame]
                     /\ pc' = "splice_suffix"
                     /\ err' = err
    /\ UNCHANGED <<desc, args, outf, inpos, loc, meta, new_content, codec>>

\* lines 410-413
CopySuffix ==
    /\ pc = "splice_suffix"
    /\ LET from == meta.begin + meta.len
           data == copy_range(fs.in, from, Len(fs.in) - meta.begin - meta.len)
       IN  /\ inpos' = from + Len(data)
           /\ fs' = [fs EXCEPT !.out = @ \o data]
    /\ pc' = "finally"
    /\ UNCHANGED <<desc, args, err, outf, loc, meta, new_content, codec>>

\* lines 416-417
CopyVerbatim ==
    /\ pc = "noop"
    /\ IF outf = "None"
       THEN Raise("AttributeError") /\ UNCHANGED <<fs, outf>>
       ELSE /\ outf' = "closed"
            /\ fs' = [fs EXCEPT !.out = copyfile(fs.in)]
            /\ pc' = "finally"
            /\ err' = err
    /\ UNCHANGED <<desc, args, inpos, loc, meta, new_content, codec>>

\* a read or a write of the operating system fails (OSError)
IOFault ==
    /\ pc \in {"locate", "splice_prefix", "splice_chunk", "splice_suffix",
               "noop"}
    /\ Raise("OSError")
    /\ UNCHANGED <<desc, args, fs, outf, inpos, loc, meta, new_content, codec>>

\* lines 419-421; an exception then leaves process_file and ends the program
Finally ==
    /\ pc = "finally"
    /\ outf' = IF outf = "open" THEN "closed" ELSE outf
    /\ pc' = IF err = "none" THEN "returned" ELSE "failed"
    /\ UNCHANGED <<desc, args, fs, err, inpos, loc, meta, new_content, codec>>

\* line 498
RemoveInput ==
    /\ pc = "returned"
    /\ IsTemppath /\ OutpathGiven
    /\ fs' = [fs EXCEPT !.in = Absent]
    /\ pc' = "removed"
    /\ UNCHANGED <<desc, args, err, outf, inpos, loc, meta, new_content, codec>>

\* line 499
RenameOutput ==
    /\ pc = "removed"
    /\ fs' = [in |-> fs.out, out |-> Absent]
    /\ pc' = "done"
    /\ UNCHANGED <<desc, args, err, outf, inpos, loc, meta, new_content, codec>>

\* line 496, when the output is no temp file
KeepOutput ==
    /\ pc = "returned"
    /\ ~(IsTemppath /\ OutpathGiven)
    /\ pc' = "done"
    /\ UNCHANGED <<desc, args, fs, err, outf, inpos, loc, meta, new_content,
                   codec>>

Next ==
    \/ OpenFiles
    \/ LocatorBegin
    \/ LocatorStep
    \/ AllocateId
    \/ LocatorReturn
    \/ Transform
    \/ CopyPrefix
    \/ WriteNewChunk
    \/ CopySuffix
    \/ CopyVerbatim
    \/ IOFault
    \/ Finally
    \/ RemoveInput
    \/ RenameOutput
    \/ KeepOutput

Spec == Init /\ [][Next]_vars

(***************************************************************************)
(* get_metadata_content alone, called as process_file calls it in a run    *)
(* without an output path (lines 383-391), on a larger family of inputs.   *)
(***************************************************************************)
LocatorInit ==
    /\ desc \in LocDescs
    /\ args = [mode |-> "show", overwrite |-> FALSE, out0 |-> Absent]
    /\ fs = [in |-> FileBytes(desc), out |-> Absent]
    /\ pc = "locate"
    /\ err = "none"
    /\ outf = "None"
    /\ inpos = 0
    /\ loc = LocInit(NoneInt, NoneInt)
    /\ meta = NoMeta
    /\ new_content = NoneText
    /\ codec = CodecIdle

LocatorNext ==
    \/ LocatorBegin
    \/ LocatorStep
    \/ AllocateId
    \/ LocatorReturn

SpecLocator == LocatorInit /\ [][LocatorNext]_vars

(***************************************************************************)
(* scan_forward as get_metadata_content calls it at line 213, on inputs    *)
(* longer than one read window: the magic marker, a length field whose     *)
(* width selector is 0, gap zero bytes, the signature, and what follows.   *)
(***************************************************************************)
\* gaps that put the signature before, across and after the end of the
\* first window, which starts behind the selector byte
ScanGaps == (blocklen - Len(signature) - 3)..(blocklen + 3)

\* what follows the signature: nothing, a metadata header, or zero bytes
ScanRests == {<<>>, Piece("meta1"), Zeros(TailLen)}

ScanDescs ==
    {[magic |-> TRUE, chunks |-> <<"corrupt">>, tail |-> FALSE,
      gap |-> g, rest |-> r] : g \in ScanGaps, r \in ScanRests}

\* the bytes of the input file of a ScanDescs member
ScanFileBytes(d) ==
    Magic \o Piece("corrupt") \o Zeros(d.gap) \o signature \o d.rest

\* fs.in of an input whose bytes are ScanFileBytes(desc), which is too long
\* to be held as a value of the variable
LargeFile == <<-3>>

\* the state when the first pass of the loop has failed to read a length at
\* offset 4 and calls scan_forward with the cursor at offset 5
ScanInit ==
    /\ desc \in ScanDescs
    /\ args = [mode |-> "show", overwrite |-> FALSE, out0 |-> Absent]
    /\ fs = [in |-> LargeFile, out |-> Absent]
    /\ pc = "scan"
    /\ err = "none"
    /\ outf = "None"
    /\ inpos = ScanFrom(Magic \o Piece("corrupt"), Len(Magic))
    /\ loc = [LocInit(Len(ScanFileBytes(desc)), 0) EXCEPT !.begin_pos = Len(Magic)]
    /\ meta = NoMeta
    /\ new_content = NoneText
    /\ codec = CodecIdle

\* line 213: scan_forward(fh)
ScanForward ==
    /\ pc = "scan"
    /\ LET s == scan_forward(ScanFileBytes(desc), inpos)
       IN  /\ inpos' = s.pos
           /\ loc' = [loc EXCEPT !.matchpos = s.match]
    /\ pc' = "scanned"
    /\ UNCHANGED <<desc, args, fs, err, outf, meta, new_content, codec>>

SpecScan == ScanInit /\ [][ScanForward]_vars

(***************************************************************************)
(* The VarLenInt round trip: write_varlen_int, then read_varlen_int on the *)
(* bytes written.                                                          *)
(***************************************************************************)
\* the values of the round-trip property: 0, 1, 254, 255, 256, 65535,
\* 2^32 - 1, 2^32, 2^63
TestValues ==
    {U64(0), U64(1), U64(254), U64(255), U64(256), U64(65535),
     <<255, 255, 255, 255, 0, 0, 0, 0>>,
     <<0, 0, 0, 0, 1, 0, 0, 0>>,
     <<0, 0, 0, 0, 0, 0, 0, 128>>}

\* and the values d * 256^(k-1) + fill, around every width
CodecValues ==
    TestValues \cup
    {[i \in 1..8 |-> IF i = k THEN d ELSE IF i < k THEN fill ELSE 0] :
        k \in 1..8, d \in {1, 15, 16, 128, 255}, fill \in {0, 255}}

CodecInit ==
    /\ desc = [magic |-> TRUE, chunks |-> <<>>, tail |-> FALSE]
    /\ args = [mode |-> "show", overwrite |-> FALSE, out0 |-> Absent]
    /\ fs = [in |-> FileBytes(desc), out |-> Absent]
    /\ pc = "codec"
    /\ err = "none"
    /\ outf = "None"
    /\ inpos = 0
    /\ loc = LocInit(NoneInt, NoneInt)
    /\ meta = NoMeta
    /\ new_content = NoneText
    /\ \E v \in CodecValues :
          codec = [pc |-> "chosen", v |-> v, enc |-> <<>>, dec |-> U64(0)]

\* write_varlen_int(v, fp) on an empty sink
CodecEncode ==
    /\ codec.pc = "chosen"
    /\ LET b == write_varlen_int(codec.v)
       IN  codec' = [codec EXCEPT !.enc = b,
                                  !.pc = IF b = <<-1>> THEN "raised"
                                         ELSE "encoded"]
    /\ UNCHANGED <<desc, args, fs, pc, err, outf, inpos, loc, meta,
                   new_content>>

\* read_varlen_int(fp) on the bytes written
CodecDecode ==
    /\ codec.pc = "encoded"
    /\ LET r == read_varlen_int(codec.enc, 0)
       IN  codec' = [codec EXCEPT !.dec = r.val,
                                  !.pc = IF r.ok THEN "decoded" ELSE "raised"]
    /\ UNCHANGED <<desc, args, fs, pc, err, outf, inpos, loc, meta,
                   new_content>>

CodecNext == CodecEncode \/ CodecDecode

SpecCodec == CodecInit /\ [][CodecNext]_vars

(***************************************************************************)
(* Properties.                                                             *)
(***************************************************************************)
Orig == FileBytes(desc)

\* VarLenInt(n) as the format defines it, for the lengths of the model
FormatVarLen(n) == IF n <= 255 THEN <<1, n>> ELSE <<4>> \o LE(n, 4)

\* input[0, begin) ++ one StreamHeader frame ++ input[begin + len, size)
SplicedFile(begin, len, id, text) ==
    LET content == Utf8Encode(text)
    IN  SubSeq(Orig, 1, begin)
        \o FormatVarLen(4 + Len(content) + 2) \o <<2, 0>> \o LE(id, 4)
        \o content
        \o SubSeq(Orig, begin + len + 1, Len(Orig))

\* process_file has ended, by returning or by an exception of its own code
\* (not by a failing read or write of the operating system)
Ended == pc \in {"returned", "failed"} /\ err # "OSError"

\* the transform returned a text that differs from the located one
Changed == new_content # NoneText /\ new_content # meta.content

\* C1: when the new content differs from the located content, the output
\* file process_file writes is input[0, metadata_begin), one StreamHeader
\* frame holding the stream id and the new content, and
\* input[metadata_begin + metadata_len, file_size).
C1_SpliceOutput ==
    (OutpathGiven /\ Changed /\ Ended)
        => /\ pc = "returned"
           /\ fs.out = SplicedFile(meta.begin, meta.len, meta.id, new_content)

\* the same, in the runs in which the locator returned a begin offset
C1_SpliceOutputAtOffset ==
    (OutpathGiven /\ Changed /\ Ended /\ meta.begin # NoneInt)
        => /\ pc = "returned"
           /\ fs.out = SplicedFile(meta.begin, meta.len, meta.id, new_content)

\* the pieces before piece k are whole chunks that do not end the traversal,
\* so that the traversal reads piece k as a chunk
Visited(d, k) ==
    \A i \in 1..(k - 1) :
        d.chunks[i] \in {"meta1", "meta2", "other", "boundary", "opaque"}

\* d holds a corrupted length at piece i, more than 1024 bytes before the
\* end, the next boundary chunk at piece j, and a metadata header at piece k
\* after it, with only headers and boundary chunks in between
Recoverable(d, i, j, k) ==
    /\ d.tail
    /\ i < j /\ j < k /\ k <= Len(d.chunks)
    /\ Visited(d, i) /\ \A h \in 1..(i - 1) : ~IsMetaPiece(d.chunks[h])
    /\ d.chunks[i] = "corrupt"
    /\ d.chunks[j] = "boundary"
    /\ \A h \in (i + 1)..(j - 1) : d.chunks[h] # "boundary"
    /\ \A h \in (j + 1)..(k - 1) : d.chunks[h] \in {"other", "boundary"}
    /\ IsMetaPiece(d.chunks[k])

\* C2: after a corrupted length field, the next frame-header read starts
\* immediately after the 16-byte boundary signature found by the scanner,
\* and a metadata chunk after that signature is returned as the location.
C2_ResyncAfterSignature ==
    /\ (pc = "loop" /\ loc.matchpos # NoneInt) => inpos = loc.matchpos + 16
    /\ pc = "transform" =>
         \A i, j, k \in 1..Len(desc.chunks) :
            Recoverable(desc, i, j, k) =>
               /\ meta.begin = Offset(desc, k)
               /\ meta.len = Len(Piece(desc.chunks[k]))
               /\ meta.content = PieceText(desc.chunks[k])
               /\ meta.id = PieceId(desc.chunks[k])

\* the output of a run whose splice or copy completed
CompleteOutput ==
    IF new_content = meta.content THEN Orig
    ELSE SplicedFile(meta.begin, meta.len, meta.id, new_content)

\* C3: in an in-place run the input path holds, in every state, either the
\* complete original bytes or the complete new output; it is never absent.
C3_InputNeverPartial ==
    args.mode = "inplace" =>
        /\ fs.in # Absent
        /\ \/ fs.in = Orig
           \/ pc = "done" /\ fs.in = CompleteOutput

\* C4: when process_file fails after it opened the output file, no output
\* file remains at the output path.
C4_NoPartialOutput ==
    (pc = "failed" /\ outf # "None") => fs.out = Absent

\* the smallest of the selectors 1, 4, 8 whose width holds d
SmallestSelector(d) ==
    IF \A i \in 2..8 : d[i] = 0 THEN 1
    ELSE IF \A i \in 5..8 : d[i] = 0 THEN 4 ELSE 8

\* C5: for each of the nine test values v, read_varlen_int on the bytes
\* write_varlen_int(v) wrote returns v, and the selector written is the
\* smallest of 1, 4, 8 that holds v.
C5_RoundTrip ==
    (codec.v \in TestValues /\ codec.pc \in {"decoded", "raised"})
        => /\ codec.pc = "decoded"
           /\ codec.dec = codec.v
           /\ codec.enc[1] = SmallestSelector(codec.v)

\* C6: when the transform returns the located content and an output path is
\* given, the output file is byte-for-byte the input file.
C6_NoOpCopy ==
    (pc = "returned" /\ OutpathGiven /\ new_content # NoneText
     /\ new_content = meta.content)
        => fs.out = Orig

\* a no-op run on a container whose metadata chunk was synthesized
C6_Witness ==
    /\ pc = "returned" /\ OutpathGiven
    /\ new_content = meta.content /\ new_content = metadata_default
    /\ meta.len = 0 /\ loc.k # NoneInt
    /\ fs.out = Orig /\ Len(Orig) > 4

\* the locator synthesized a metadata chunk (it drew a stream id)
Synthesized == loc.k # NoneInt

\* C7: a location synthesized at the first Samples/StreamFooter chunk has
\* byte length 0 and begins at the first StreamHeader chunk seen or, when
\* none was seen, at that Samples/StreamFooter chunk.
C7_InsertionPoint ==
    (pc = "transform" /\ Synthesized)
        => /\ meta.len = 0
           /\ meta.begin = IF loc.streamheaders_begin # NoneInt
                           THEN loc.streamheaders_begin ELSE loc.begin_pos

\* the stream ids of all StreamHeader chunks of the input container
AllHeaderIds(d) ==
    {PieceId(d.chunks[i]) : i \in {h \in 1..Len(d.chunks) :
                                      IsHeaderPiece(d.chunks[h])}}

\* C8: the stream id allocated for a synthesized metadata chunk differs from
\* the stream id of every StreamHeader chunk of the input container.
C8_FreshId ==
    (pc = "transform" /\ Synthesized) => meta.id \notin AllHeaderIds(desc)

\* the locator returned the span of a metadata chunk it read
Found == meta.len # NoneInt /\ meta.len > 0

\* C9: whenever the locator returns without having found a metadata chunk,
\* the result carries the default document, byte length 0 and an allocated
\* stream id.
C9_DefaultWhenAbsent ==
    (pc = "transform" /\ ~Found)
        => /\ meta.content = metadata_default
           /\ meta.len = 0
           /\ meta.id # NoneInt

\* the metadata headers the traversal reads, in file order
MetaIdx(d) == {k \in 1..Len(d.chunks) : IsMetaPiece(d.chunks[k]) /\ Visited(d, k)}

FirstMeta(d) == CHOOSE k \in MetaIdx(d) : \A j \in MetaIdx(d) : k <= j

\* the locator's answer is the first metadata header, the duplicate flag is
\* set and warned about, and the later ones' ids are among the other ids
FirstWins ==
    (pc = "transform" /\ Cardinality(MetaIdx(desc)) >= 2) =>
        LET k1 == FirstMeta(desc)
        IN  /\ meta.begin = Offset(desc, k1)
            /\ meta.len = Len(Piece(desc.chunks[k1]))
            /\ meta.content = PieceText(desc.chunks[k1])
            /\ meta.id = PieceId(desc.chunks[k1])
            /\ loc.has_more_than_one /\ loc.warned
            /\ \A k \in MetaIdx(desc) \ {k1} :
                  PieceId(desc.chunks[k]) \in Range(loc.other_ids)

\* once a metadata chunk that was read is recorded, its span, content and id
\* stay
RecordKept ==
    (loc.metadata_len # NoneInt /\ loc.metadata_len > 0) =>
        /\ loc'.metadata_begin = loc.metadata_begin
        /\ loc'.metadata_len = loc.metadata_len
        /\ loc'.metadata_content = loc.metadata_content
        /\ loc'.metadata_id = loc.metadata_id

\* C10: with two or more metadata headers in the header region the locator
\* returns the first one's offset, length, content and id, sets the
\* duplicate flag, adds every later one's id to the other ids, and no later
\* chunk overwrites the recorded span.
C10_FirstMetadataWins == []FirstWins /\ [][RecordKept]_vars

\* the locator returned from a container that holds meta2 before meta1
C10_Witness ==
    /\ pc = "transform"
    /\ Cardinality(MetaIdx(desc)) >= 2
    /\ desc.chunks[FirstMeta(desc)] = "meta2"
    /\ meta.id = 2 /\ loc.has_more_than_one
    /\ 1 \in Range(loc.other_ids)

\* C11: when the first 4 bytes of the input are not the magic marker,
\* processing aborts and no output is written: the output path holds what it
\* held before the run (nothing, or the existing file's bytes).
C11_NoOutputOnBadMagic ==
    ~desc.magic =>
        /\ fs.out = args.out0
        /\ pc \in {"start", "locate", "finally", "failed"}

\* the output path held a file before the run and --overwrite was not given
OutputExists == OutpathGiven /\ ~args.overwrite /\ args.out0 # Absent

\* C12: when a file exists at the output path and overwriting is not
\* allowed, process_file fails before any write: the existing file and the
\* input are unchanged, and neither the locator nor the splice runs.
C12_OutputExistsAborts ==
    OutputExists =>
        /\ fs = [in |-> Orig, out |-> args.out0]
        /\ pc \in {"start", "finally", "failed"}
        /\ pc # "start" => err = "FileExistsError"
        /\ outf = "None"
        /\ loc = LocInit(NoneInt, NoneInt) /\ meta = NoMeta
        /\ new_content = NoneText

\* process_file failed on an existing output file, for a container that
\* holds a metadata chunk
C12_Witness ==
    /\ OutputExists /\ pc = "failed" /\ err = "FileExistsError"
    /\ fs.out = <<9>> /\ desc.magic /\ MetaIdx(desc) # {}

\* the cursor of the input handle when get_metadata_content was called
\* (line 383: the handle was just opened)
PosAtCall == 0

\* C13: the locator only reads: no byte of any file changes while it runs,
\* and on every normal return the cursor of the input handle is back at the
\* position it had at the call, which is the position saved at line 176.
C13_LocatorReadOnly ==
    /\ fs = [in |-> Orig, out |-> Absent]
    /\ pc \in {"loop", "alloc", "loc_end", "transform"} =>
          loc.oldpos = PosAtCall
    /\ pc = "transform" => inpos = PosAtCall

\* the locator returned after a resynchronization that ran to the end of the
\* input, with a metadata chunk recorded before it
C13_Witness ==
    /\ pc = "transform" /\ inpos = 0
    /\ desc.tail /\ \E k \in 1..Len(desc.chunks) : desc.chunks[k] = "corrupt"
    /\ loc.begin_pos = Len(fs.in)
    /\ meta.len > 0

\* one iteration that goes on to a further iteration leaves the cursor
\* beyond the offset at which it began
LoopProgress ==
    pc = "loop" =>
        /\ loc'.begin_pos = inpos
        /\ pc' = "loop" => inpos' > loc'.begin_pos

\* C14: for every input that starts with the magic marker the traversal loop
\* ends after finitely many iterations: the cursor never passes the end of
\* the input, and every iteration (a resynchronizing one too) either ends
\* the loop or leaves the cursor strictly beyond its begin_pos, so that the
\* loop runs at most as many iterations as the input has bytes.
C14_LoopTerminates ==
    /\ [](pc = "loop" => inpos <= Len(fs.in))
    /\ [][LoopProgress]_vars

\* the loop has run an iteration that resynchronized on a signature, and
\* then further iterations, and has ended
C14_Witness ==
    /\ pc = "transform"
    /\ \E i \in 1..Len(desc.chunks) :
          /\ desc.chunks[i] = "corrupt" /\ Visited(desc, i)
          /\ \E j \in (i + 1)..Len(desc.chunks) : desc.chunks[j] = "boundary"
    /\ desc.tail
    /\ loc.begin_pos = Len(fs.in)

\* a container of whole chunks only: valid length selectors, lengths of at
\* least 2 (6 for a StreamHeader), nothing truncated, nothing after them
WellFormed(d) ==
    /\ d.magic /\ ~d.tail
    /\ \A k \in 1..Len(d.chunks) :
          d.chunks[k] \in {"meta1", "meta2", "other", "samples", "footer",
                           "boundary", "opaque"}

\* the width of the length field of a piece, and the length it holds
LengthWidth(n) == Piece(n)[1]
FrameLength(n) == UnLE(SubSeq(Piece(n), 2, 1 + LengthWidth(n)))

\* offset x is the first byte of the frame of a chunk the traversal reaches
\* among the first last pieces (piece Len(d.chunks) + 1 is the end of file)
AtFrame(d, x, last) ==
    \E k \in 1..last : x = Offset(d, k) /\ Visited(d, k)

\* on a well-formed container: begin_pos and the cursor between iterations
\* are at frames, and a recorded metadata span is the frame of a chunk
FramesAligned(last) ==
    WellFormed(desc) =>
        /\ loc.begin_pos # NoneInt => AtFrame(desc, loc.begin_pos, last)
        /\ pc = "loop" => AtFrame(desc, inpos, Len(desc.chunks) + 1)
        /\ (loc.metadata_len # NoneInt /\ loc.metadata_len > 0) =>
              \E k \in 1..Len(desc.chunks) :
                 /\ IsMetaPiece(desc.chunks[k])
                 /\ loc.metadata_begin = Offset(desc, k)
                 /\ loc.metadata_len = Len(Piece(desc.chunks[k]))

\* on a well-formed container, an iteration at piece k records its offset,
\* ends the traversal if piece k is a Samples/StreamFooter chunk, and
\* otherwise leaves the cursor at piece k + 1; past a chunk with any other
\* tag that is the header size plus length - 2 bytes further
InFileOrder ==
    (WellFormed(desc) /\ pc = "loop") =>
        \A k \in 1..Len(desc.chunks) :
            inpos = Offset(desc, k) =>
               /\ loc'.begin_pos = Offset(desc, k)
               /\ IF IsDataPiece(desc.chunks[k])
                  THEN pc' \in {"alloc", "loc_end"}
                  ELSE pc' = "loop" /\ inpos' = Offset(desc, k + 1)
               /\ desc.chunks[k] \in {"boundary", "opaque"} =>
                     inpos' = inpos + (1 + LengthWidth(desc.chunks[k]) + 2)
                                    + (FrameLength(desc.chunks[k]) - 2)

\* C15: for a well-formed container every begin_pos the locator records is
\* the offset of the first byte of a chunk frame, chunks are visited in file
\* order with none skipped up to and including the first Samples or
\* StreamFooter chunk, a chunk with an opaque tag advances the cursor by its
\* header size plus length - 2, and a recorded metadata span is exactly the
\* frame of its chunk.
C15_FramesOnly ==
    /\ []FramesAligned(Len(desc.chunks))
    /\ [][InFileOrder]_vars

\* C15, amended: the same, where a begin_pos is the offset of the first byte
\* of a chunk frame or, in the last iteration on a container without a
\* Samples or StreamFooter chunk, the end of the file.
C15_FramesOrEnd ==
    /\ []FramesAligned(Len(desc.chunks) + 1)
    /\ [][InFileOrder]_vars
    /\ []((WellFormed(desc) /\ loc.begin_pos = Len(fs.in)) => pc # "loop")

\* the traversal of a well-formed container without a Samples or
\* StreamFooter chunk passed a chunk with a 4-byte length field, recorded a
\* metadata chunk, and ended at the end of the file
C15_Witness ==
    /\ WellFormed(desc) /\ pc = "transform"
    /\ Len(desc.chunks) = 3
    /\ desc.chunks[1] = "opaque" /\ IsMetaPiece(desc.chunks[2])
    /\ loc.begin_pos = Len(fs.in)
    /\ meta.begin = Offset(desc, 2) /\ meta.len = Len(Piece(desc.chunks[2]))

\* a run with an output path has returned after splicing new content
Spliced == OutpathGiven /\ Changed /\ pc = "returned"

\* C16: when the splice has written new content c (with name and type still
\* "Metadata") for a location (content, begin, len, id), the locator run on
\* the output returns content c, the same begin and the same stream id, and
\* a byte length equal to the size of the new frame; a second run with the
\* same c then compares equal at line 397 and takes the copy path.
C16_LocateAfterSplice ==
    Spliced =>
        LET r == get_metadata_content(fs.out)
        IN  /\ r.ok /\ ~r.synthesized
            /\ r.content = new_content
            /\ r.begin = meta.begin
            /\ r.id = meta.id
            /\ r.len = Len(NewChunk(meta.id, new_content))
            /\ ~SpliceNeeded(r.content, new_content)

\* a splice replaced a metadata chunk that is followed by further chunks,
\* and the locator finds the new content in the output
C16_Witness ==
    /\ Spliced /\ Found
    /\ meta.begin + meta.len < Len(Orig)
    /\ get_metadata_content(fs.out).content = Edited(meta.content)


\* the offset of the first occurrence of the signature in f at or after
\* offset pos, or NoneInt when there is none
FirstOccurrence(f, pos) ==
    LET m == Find(SubSeq(f, pos + 1, Len(f)), signature)
    IN  IF m = -1 THEN NoneInt ELSE pos + m

\* C17: the resync scanner stops at the first occurrence of the 16-byte
\* signature at or after the cursor, wherever the occurrence lies relative
\* to the read windows (also across two of them), and reports the end of
\* the input only when there is no occurrence: the match is the first
\* occurrence and the cursor is left in or just behind it, or there is no
\* occurrence and the cursor is left at the end of the input.
C17_ScanFindsFirst ==
    pc = "scanned" =>
        LET f     == ScanFileBytes(desc)
            first == FirstOccurrence(f, ScanFrom(f, loc.begin_pos))
        IN  /\ loc.matchpos = first
            /\ IF first = NoneInt
               THEN inpos = Len(f)
               ELSE first <= inpos /\ inpos <= first + Len(signature)

\* C18: a show-only run (no output path) of process_file on a valid
\* container finishes without error, creates or modifies no file and writes
\* nothing, whether or not the text the transform returns equals the located
\* content.  Stated for the runs in which the locator returned a content and
\* an offset and the transform returned a text, and no read of the operating
\* system failed.
C18_ShowOnlyReadOnly ==
    (/\ args.mode = "show" /\ WellFormed(desc)
     /\ meta.begin # NoneInt /\ new_content # NoneText
     /\ err # "OSError")
        => /\ err = "none" /\ pc # "failed"
           /\ fs = [in |-> Orig, out |-> Absent]
           /\ outf = "None"

====
